---- MODULE Spec2Model ----
(***************************************************************************)
(* Model of the nft_ticketing_backend canister (src/lib.rs): an event      *)
(* registry, a ticket registry keyed by a derived ticket id, an ownership  *)
(* ledger and the NFT metadata map.                                        *)
(*                                                                         *)
(* Strings are sequences of one-character strings, so that trimming and    *)
(* the ticket id derivation are computed character by character.           *)
(* Every #[ic_cdk::update] / #[ic_cdk::query] entry point runs to          *)
(* completion without an await, so the canister executes each call as one  *)
(* atomic message: one action per entry point.                             *)
(* Time is counted in units of 100 s (10^11 ns); time() is the timestamp   *)
(* of the message being executed, which never decreases.                   *)
(*                                                                         *)
(* last is the most recent call (entry point, arguments, the time() it     *)
(* read if any, returned value) and pre is the three maps as they were     *)
(* when that call started.                                                 *)
(* calls holds the transfer_ticket messages that clients have sent to the  *)
(* canister: for each, the owner the ledger showed when it was sent and,   *)
(* once the canister has executed it, its reply. The canister executes     *)
(* the messages it holds one at a time, in any order.                      *)
(***************************************************************************)
EXTENDS Integers, Sequences, FiniteSets, TLC

VARIABLES EVENTS, TICKETS, NFT_METADATA, now, last, pre, calls

vars == <<EVENTS, TICKETS, NFT_METADATA, now, last, pre, calls>>

(* ---------------------------------------------------------------------- *)
(* Bounds of the exploration                                              *)
(* ---------------------------------------------------------------------- *)
(* largest num_seats and seat_number of the calls under Spec *)
MaxSeats == 2
(* latest time() *)
MaxTime == 1
(* largest num_seats and seat_number of the calls under SpecTwoEvents *)
MaxSeatsTwo == 1
(* most transfer_ticket messages sent under SpecConcurrent *)
MaxInFlight == 2
(* largest seat number whose ticket id TicketIdsInjective compares *)
MaxSeatNumber == 10

(* five_minutes = 300_000_000_000 ns, in units of 10^11 ns *)
FiveMinutes == 3

(* ---------------------------------------------------------------------- *)
(* Inputs                                                                 *)
(* ---------------------------------------------------------------------- *)
E1 == <<"E", "1">>
E2 == <<"E", "2">>
E1_0 == <<"E", "1", "_", "0">>

EventIds == {E1}
TwoEventIds == {E1, E2}
(* a name of whitespace only and one with whitespace around a letter *)
Names == {<<" ">>, <<" ", "a", " ">>}
(* the empty location and a valid one *)
Locations == {<< >>, <<"b">>}
(* num_seats from 0 (invalid) up; seat_number up to the largest capacity *)
SeatCounts == 0..MaxSeats
SeatNumbers == 0..MaxSeats
TwoSeatCounts == 0..MaxSeatsTwo
(* at the latest time(): one unit short of five minutes ahead, and exactly *)
(* five minutes ahead                                                      *)
Dates == {MaxTime + FiveMinutes - 1, MaxTime + FiveMinutes}
Principals == {"A", "B"}

(* ---------------------------------------------------------------------- *)
(* Strings                                                                *)
(* ---------------------------------------------------------------------- *)
WhiteSpace == {" ", "\t", "\n"}

RECURSIVE trim_start(_)
trim_start(s) ==
    IF s = << >> THEN << >>
    ELSE IF Head(s) \in WhiteSpace THEN trim_start(Tail(s))
    ELSE s

RECURSIVE trim_end(_)
trim_end(s) ==
    IF s = << >> THEN << >>
    ELSE IF s[Len(s)] \in WhiteSpace THEN trim_end(SubSeq(s, 1, Len(s) - 1))
    ELSE s

trim(s) == trim_end(trim_start(s))

Digits == <<"0", "1", "2", "3", "4", "5", "6", "7", "8", "9">>

(* u32::to_string / the {} formatter of an unsigned integer *)
RECURSIVE to_string(_)
to_string(n) ==
    IF n < 10 THEN <<Digits[n + 1]>>
    ELSE to_string(n \div 10) \o <<Digits[(n % 10) + 1]>>

(* the separator left out: format!("{}{}", event_id, seat_number) *)
ticket_id_of_NoSeparator(event_id, seat_number) ==
    event_id \o to_string(seat_number)

(* format!("{}_{}", event_id, seat_number) *)
ticket_id_of(event_id, seat_number) ==
    event_id \o <<"_">> \o to_string(seat_number)

(* ---------------------------------------------------------------------- *)
(* Results and maps                                                       *)
(* ---------------------------------------------------------------------- *)
Ok(v) == [ok |-> TRUE, val |-> v]
Err(m) == [ok |-> FALSE, err |-> m]
Unit == << >>
None == << >>

EmptyMap == [k \in {} |-> k]

contains_key(m, k) == k \in DOMAIN m

insert(m, k, v) == [x \in (DOMAIN m) \cup {k} |-> IF x = k THEN v ELSE m[x]]

(* the three global maps *)
Store == [events |-> EVENTS, tickets |-> TICKETS, metadata |-> NFT_METADATA]

(* what a call leaves behind: its returned value and the three maps *)
Outcome(ret, events, tickets, metadata) ==
    [ret |-> ret, events |-> events, tickets |-> tickets, metadata |-> metadata]

(* a call that returns without touching the maps *)
Return(ret) == Outcome(ret, EVENTS, TICKETS, NFT_METADATA)

(* ---------------------------------------------------------------------- *)
(* validate_input                                                         *)
(* ---------------------------------------------------------------------- *)
validate_input_StrictDate(name, date, location, num_seats) ==
    LET min_allowed_date == now + FiveMinutes IN
    IF Len(trim(name)) = 0 THEN Err("Invalid name")
    ELSE IF Len(trim(location)) = 0 THEN Err("Invalid location")
    ELSE IF num_seats = 0 THEN Err("Invalid num_seats")
    ELSE IF date <= min_allowed_date
         THEN Err("Date needs to be at least five minutes more than the current timestamp")
    ELSE Ok(Unit)

(* the location checked before the name *)
validate_input_LocationFirst(name, date, location, num_seats) ==
    LET min_allowed_date == now + FiveMinutes IN
    IF Len(trim(location)) = 0 THEN Err("Invalid location")
    ELSE IF Len(trim(name)) = 0 THEN Err("Invalid name")
    ELSE IF num_seats = 0 THEN Err("Invalid num_seats")
    ELSE IF date < min_allowed_date
         THEN Err("Date needs to be at least five minutes more than the current timestamp")
    ELSE Ok(Unit)

validate_input(name, date, location, num_seats) ==
    LET min_allowed_date == now + FiveMinutes IN
    IF Len(trim(name)) = 0 THEN Err("Invalid name")
    ELSE IF Len(trim(location)) = 0 THEN Err("Invalid location")
    ELSE IF num_seats = 0 THEN Err("Invalid num_seats")
    ELSE IF date < min_allowed_date
         THEN Err("Date needs to be at least five minutes more than the current timestamp")
    ELSE Ok(Unit)

(* ---------------------------------------------------------------------- *)
(* create_event                                                           *)
(* ---------------------------------------------------------------------- *)
new_event(name, date, location, num_seats, id) ==
    [id |-> id, name |-> name, date |-> date, location |-> location,
     max_seats |-> num_seats, nft_id |-> None]

(* the duplicate check made after the validation *)
create_event_ValidateFirst(name, date, location, num_seats, id) ==
    LET can_create == validate_input(name, date, location, num_seats) IN
    IF ~can_create.ok THEN Return(Err(can_create.err))
    ELSE IF contains_key(EVENTS, id)
         THEN Return(Err("Event with this ID already exists"))
    ELSE LET event == new_event(name, date, location, num_seats, id) IN
         Outcome(Ok(event), insert(EVENTS, id, event), TICKETS, NFT_METADATA)

(* no duplicate check: a second create overwrites the event *)
create_event_Overwrite(name, date, location, num_seats, id) ==
    LET can_create == validate_input(name, date, location, num_seats) IN
    IF ~can_create.ok THEN Return(Err(can_create.err))
    ELSE LET event == new_event(name, date, location, num_seats, id) IN
         Outcome(Ok(event), insert(EVENTS, id, event), TICKETS, NFT_METADATA)

(* the event inserted before the validation *)
create_event_InsertFirst(name, date, location, num_seats, id) ==
    IF contains_key(EVENTS, id)
    THEN Return(Err("Event with this ID already exists"))
    ELSE LET event == new_event(name, date, location, num_seats, id)
             can_create == validate_input(name, date, location, num_seats) IN
         IF ~can_create.ok
         THEN Outcome(Err(can_create.err), insert(EVENTS, id, event),
                      TICKETS, NFT_METADATA)
         ELSE Outcome(Ok(event), insert(EVENTS, id, event), TICKETS, NFT_METADATA)

create_event(name, date, location, num_seats, id) ==
    IF contains_key(EVENTS, id)
    THEN Return(Err("Event with this ID already exists"))
    ELSE LET can_create == validate_input(name, date, location, num_seats) IN
         IF ~can_create.ok THEN Return(Err(can_create.err))
         ELSE LET event == new_event(name, date, location, num_seats, id) IN
              Outcome(Ok(event), insert(EVENTS, id, event), TICKETS, NFT_METADATA)

(* ---------------------------------------------------------------------- *)
(* mint_ticket                                                            *)
(* ---------------------------------------------------------------------- *)
(* the metadata record keyed by the event instead of the ticket *)
new_nft_metadata_EventToken(event, ticket_id, seat_number, owner) ==
    [token_id |-> event.id,
     owner |-> owner,
     metadata |-> [name |-> "Event Ticket",
                   description |-> <<"Ticket for ", event.name, " at seat ",
                                     to_string(seat_number)>>,
                   image |-> "image_url_or_data_uri",
                   attributes |-> <<[trait_type |-> "Event Name",
                                     value |-> event.name]>>]]

(* description is format!("Ticket for {} at seat {}", ..), kept as its parts *)
new_nft_metadata(event, ticket_id, seat_number, owner) ==
    [token_id |-> ticket_id,
     owner |-> owner,
     metadata |-> [name |-> "Event Ticket",
                   description |-> <<"Ticket for ", event.name, " at seat ",
                                     to_string(seat_number)>>,
                   image |-> "image_url_or_data_uri",
                   attributes |-> <<[trait_type |-> "Event Name",
                                     value |-> event.name]>>]]

new_ticket(ticket_id, seat_number, event_id, owner) ==
    [id |-> ticket_id, seat_number |-> to_string(seat_number),
     event_id |-> event_id, owner |-> owner]

(* a missing event reported as a seat number out of range *)
mint_ticket_MissingAsRange(event_id, seat_number, owner) ==
    IF ~contains_key(EVENTS, event_id)
    THEN Return(Err("Seat number exceeds the maximum seats available"))
    ELSE LET event == EVENTS[event_id] IN
    IF seat_number >= event.max_seats
    THEN Return(Err("Seat number exceeds the maximum seats available"))
    ELSE LET ticket_id == ticket_id_of(event_id, seat_number) IN
    IF contains_key(TICKETS, ticket_id)
    THEN Return(Err("This seat is already taken"))
    ELSE LET nft_metadata == new_nft_metadata(event, ticket_id, seat_number, owner)
             ticket == new_ticket(ticket_id, seat_number, event_id, owner) IN
         Outcome(Ok(ticket), EVENTS, insert(TICKETS, ticket_id, ticket),
                 insert(NFT_METADATA, ticket_id, nft_metadata))

(* the metadata record written before the seat number is checked *)
mint_ticket_MetadataFirst(event_id, seat_number, owner) ==
    IF ~contains_key(EVENTS, event_id) THEN Return(Err("Event not found"))
    ELSE LET event == EVENTS[event_id]
             ticket_id == ticket_id_of(event_id, seat_number)
             nft_metadata == new_nft_metadata(event, ticket_id, seat_number, owner)
             ticket == new_ticket(ticket_id, seat_number, event_id, owner) IN
    IF seat_number >= event.max_seats
    THEN Outcome(Err("Seat number exceeds the maximum seats available"),
                 EVENTS, TICKETS, insert(NFT_METADATA, ticket_id, nft_metadata))
    ELSE IF contains_key(TICKETS, ticket_id)
    THEN Return(Err("This seat is already taken"))
    ELSE Outcome(Ok(ticket), EVENTS, insert(TICKETS, ticket_id, ticket),
                 insert(NFT_METADATA, ticket_id, nft_metadata))

(* no seat-taken check: a second mint overwrites the ticket *)
mint_ticket_NoTakenCheck(event_id, seat_number, owner) ==
    IF ~contains_key(EVENTS, event_id) THEN Return(Err("Event not found"))
    ELSE LET event == EVENTS[event_id] IN
    IF seat_number >= event.max_seats
    THEN Return(Err("Seat number exceeds the maximum seats available"))
    ELSE LET ticket_id == ticket_id_of(event_id, seat_number)
             nft_metadata == new_nft_metadata(event, ticket_id, seat_number, owner)
             ticket == new_ticket(ticket_id, seat_number, event_id, owner) IN
         Outcome(Ok(ticket), EVENTS, insert(TICKETS, ticket_id, ticket),
                 insert(NFT_METADATA, ticket_id, nft_metadata))

(* the off-by-one bound: seat_number > max_seats *)
mint_ticket_OffByOne(event_id, seat_number, owner) ==
    IF ~contains_key(EVENTS, event_id) THEN Return(Err("Event not found"))
    ELSE LET event == EVENTS[event_id] IN
    IF seat_number > event.max_seats
    THEN Return(Err("Seat number exceeds the maximum seats available"))
    ELSE LET ticket_id == ticket_id_of(event_id, seat_number) IN
    IF contains_key(TICKETS, ticket_id)
    THEN Return(Err("This seat is already taken"))
    ELSE LET nft_metadata == new_nft_metadata(event, ticket_id, seat_number, owner)
             ticket == new_ticket(ticket_id, seat_number, event_id, owner) IN
         Outcome(Ok(ticket), EVENTS, insert(TICKETS, ticket_id, ticket),
                 insert(NFT_METADATA, ticket_id, nft_metadata))

mint_ticket(event_id, seat_number, owner) ==
    IF ~contains_key(EVENTS, event_id) THEN Return(Err("Event not found"))
    ELSE LET event == EVENTS[event_id] IN
    IF seat_number >= event.max_seats
    THEN Return(Err("Seat number exceeds the maximum seats available"))
    ELSE LET ticket_id == ticket_id_of(event_id, seat_number) IN
    IF contains_key(TICKETS, ticket_id)
    THEN Return(Err("This seat is already taken"))
    ELSE LET nft_metadata == new_nft_metadata(event, ticket_id, seat_number, owner)
             ticket == new_ticket(ticket_id, seat_number, event_id, owner) IN
         Outcome(Ok(ticket), EVENTS, insert(TICKETS, ticket_id, ticket),
                 insert(NFT_METADATA, ticket_id, nft_metadata))

(* ---------------------------------------------------------------------- *)
(* transfer_ticket; caller is ic_cdk::caller()                            *)
(* ---------------------------------------------------------------------- *)
(* no ownership check *)
transfer_ticket_NoOwnerCheck(ticket_id, new_owner, caller) ==
    IF ~contains_key(TICKETS, ticket_id) THEN Return(Err("Ticket not found"))
    ELSE Outcome(Ok(Unit), EVENTS,
                 [TICKETS EXCEPT ![ticket_id].owner = new_owner], NFT_METADATA)

(* the metadata record's owner rewritten along with the ticket's *)
transfer_ticket_SyncMetadata(ticket_id, new_owner, caller) ==
    IF ~contains_key(TICKETS, ticket_id) THEN Return(Err("Ticket not found"))
    ELSE IF TICKETS[ticket_id].owner # caller
         THEN Return(Err("Only the ticket owner can transfer it"))
    ELSE Outcome(Ok(Unit), EVENTS,
                 [TICKETS EXCEPT ![ticket_id].owner = new_owner],
                 [NFT_METADATA EXCEPT ![ticket_id].owner = new_owner])

(* the caller compared with the owner of the metadata record *)
transfer_ticket_MetadataOwner(ticket_id, new_owner, caller) ==
    IF ~contains_key(TICKETS, ticket_id) THEN Return(Err("Ticket not found"))
    ELSE IF NFT_METADATA[ticket_id].owner # caller
         THEN Return(Err("Only the ticket owner can transfer it"))
    ELSE Outcome(Ok(Unit), EVENTS,
                 [TICKETS EXCEPT ![ticket_id].owner = new_owner], NFT_METADATA)

(* the owner never written *)
transfer_ticket_NoWrite(ticket_id, new_owner, caller) ==
    IF ~contains_key(TICKETS, ticket_id) THEN Return(Err("Ticket not found"))
    ELSE IF TICKETS[ticket_id].owner # caller
         THEN Return(Err("Only the ticket owner can transfer it"))
    ELSE Return(Ok(Unit))

transfer_ticket(ticket_id, new_owner, caller) ==
    IF ~contains_key(TICKETS, ticket_id) THEN Return(Err("Ticket not found"))
    ELSE IF TICKETS[ticket_id].owner # caller
         THEN Return(Err("Only the ticket owner can transfer it"))
    ELSE Outcome(Ok(Unit), EVENTS,
                 [TICKETS EXCEPT ![ticket_id].owner = new_owner], NFT_METADATA)

(* ---------------------------------------------------------------------- *)
(* check_ticket_owner, get_event                                          *)
(* ---------------------------------------------------------------------- *)
(* the owner read from the metadata record *)
check_ticket_owner_FromMetadata(ticket_id) ==
    IF contains_key(TICKETS, ticket_id)
    THEN Return(Ok(NFT_METADATA[ticket_id].owner))
    ELSE Return(Err("Ticket with id not found"))

check_ticket_owner(ticket_id) ==
    IF contains_key(TICKETS, ticket_id)
    THEN Return(Ok(TICKETS[ticket_id].owner))
    ELSE Return(Err("Ticket with id not found"))

(* the event taken out of the map (remove in place of get) *)
get_event_Remove(event_id) ==
    IF contains_key(EVENTS, event_id)
    THEN Outcome(Ok(EVENTS[event_id]),
                 [k \in (DOMAIN EVENTS) \ {event_id} |-> EVENTS[k]],
                 TICKETS, NFT_METADATA)
    ELSE Return(Err("Event with id not found"))

get_event(event_id) ==
    IF contains_key(EVENTS, event_id)
    THEN Return(Ok(EVENTS[event_id]))
    ELSE Return(Err("Event with id not found"))

(* ---------------------------------------------------------------------- *)
(* Specification                                                          *)
(* ---------------------------------------------------------------------- *)
(* the ticket ids a client can ask about: one per seat number of the inputs *)
TicketIds == {ticket_id_of(e, s) : e \in EventIds, s \in SeatNumbers}
TwoTicketIds == {ticket_id_of(e, s) : e \in TwoEventIds, s \in TwoSeatCounts}

Init ==
    /\ EVENTS = EmptyMap
    /\ TICKETS = EmptyMap
    /\ NFT_METADATA = EmptyMap
    /\ now = 0
    /\ last = [call |-> [op |-> "init"], ret |-> Ok(Unit)]
    /\ pre = [events |-> EmptyMap, tickets |-> EmptyMap, metadata |-> EmptyMap]
    /\ calls = EmptyMap

CreateEvent(names, dates, locations, counts, ids) ==
    \E name \in names, date \in dates, location \in locations,
       num_seats \in counts, id \in ids :
        LET out == create_event(name, date, location, num_seats, id) IN
        /\ pre' = Store
        /\ last' = [call |-> [op |-> "create_event", name |-> name, date |-> date,
                              location |-> location, num_seats |-> num_seats,
                              id |-> id, time |-> now],
                    ret |-> out.ret]
        /\ EVENTS' = out.events
        /\ TICKETS' = out.tickets
        /\ NFT_METADATA' = out.metadata
        /\ UNCHANGED <<now, calls>>

MintTicket(ids, seats, principals) ==
    \E event_id \in ids, seat_number \in seats, owner \in principals :
        LET out == mint_ticket(event_id, seat_number, owner) IN
        /\ pre' = Store
        /\ last' = [call |-> [op |-> "mint_ticket", event_id |-> event_id,
                              seat_number |-> seat_number, owner |-> owner],
                    ret |-> out.ret]
        /\ EVENTS' = out.events
        /\ TICKETS' = out.tickets
        /\ NFT_METADATA' = out.metadata
        /\ UNCHANGED <<now, calls>>

TransferTicket(tickets, principals) ==
    \E ticket_id \in tickets, new_owner \in principals, caller \in principals :
        LET out == transfer_ticket(ticket_id, new_owner, caller) IN
        /\ pre' = Store
        /\ last' = [call |-> [op |-> "transfer_ticket", ticket_id |-> ticket_id,
                              new_owner |-> new_owner, caller |-> caller],
                    ret |-> out.ret]
        /\ EVENTS' = out.events
        /\ TICKETS' = out.tickets
        /\ NFT_METADATA' = out.metadata
        /\ UNCHANGED <<now, calls>>

CheckTicketOwner(tickets) ==
    \E ticket_id \in tickets :
        LET out == check_ticket_owner(ticket_id) IN
        /\ pre' = Store
        /\ last' = [call |-> [op |-> "check_ticket_owner", ticket_id |-> ticket_id],
                    ret |-> out.ret]
        /\ EVENTS' = out.events
        /\ TICKETS' = out.tickets
        /\ NFT_METADATA' = out.metadata
        /\ UNCHANGED <<now, calls>>

GetEvent(ids) ==
    \E event_id \in ids :
        LET out == get_event(event_id) IN
        /\ pre' = Store
        /\ last' = [call |-> [op |-> "get_event", event_id |-> event_id],
                    ret |-> out.ret]
        /\ EVENTS' = out.events
        /\ TICKETS' = out.tickets
        /\ NFT_METADATA' = out.metadata
        /\ UNCHANGED <<now, calls>>

(* time() of the next message is later *)
Tick ==
    /\ now < MaxTime
    /\ now' = now + 1
    /\ UNCHANGED <<EVENTS, TICKETS, NFT_METADATA, last, pre, calls>>

(* a client sends a transfer_ticket message; seen is the owner the ledger  *)
(* shows at that moment                                                    *)
SubmitTransfer(tickets, new_owners, callers) ==
    \E ticket_id \in tickets, new_owner \in new_owners, caller \in callers :
        LET request == [ticket_id |-> ticket_id, new_owner |-> new_owner,
                        caller |-> caller] IN
        /\ Cardinality(DOMAIN calls) < MaxInFlight
        /\ request \notin DOMAIN calls
        /\ calls' = insert(calls, request,
                           [seen |-> check_ticket_owner(ticket_id).ret,
                            reply |-> << >>])
        /\ UNCHANGED <<EVENTS, TICKETS, NFT_METADATA, now, last, pre>>

(* the canister executes one of the messages it holds *)
ExecuteTransfer ==
    \E request \in DOMAIN calls :
        LET out == transfer_ticket(request.ticket_id, request.new_owner,
                                   request.caller) IN
        /\ calls[request].reply = << >>
        /\ pre' = Store
        /\ last' = [call |-> [op |-> "transfer_ticket",
                              ticket_id |-> request.ticket_id,
                              new_owner |-> request.new_owner,
                              caller |-> request.caller],
                    ret |-> out.ret]
        /\ EVENTS' = out.events
        /\ TICKETS' = out.tickets
        /\ NFT_METADATA' = out.metadata
        /\ calls' = [calls EXCEPT ![request].reply = <<out.ret>>]
        /\ UNCHANGED now

(* one event id, every validation case, the clock advancing *)
Next ==
    \/ CreateEvent(Names, Dates, Locations, SeatCounts, EventIds)
    \/ MintTicket(EventIds, SeatNumbers, Principals)
    \/ TransferTicket(TicketIds, Principals)
    \/ CheckTicketOwner(TicketIds)
    \/ GetEvent(EventIds)
    \/ Tick

Spec == Init /\ [][Next]_vars

(* two event ids, smaller events, one date, the clock at rest *)
NextTwoEvents ==
    \/ CreateEvent(Names, {FiveMinutes}, {<<"b">>}, TwoSeatCounts, TwoEventIds)
    \/ MintTicket(TwoEventIds, TwoSeatCounts, Principals)
    \/ TransferTicket(TwoTicketIds, Principals)
    \/ CheckTicketOwner(TwoTicketIds)
    \/ GetEvent(TwoEventIds)

SpecTwoEvents == Init /\ [][NextTwoEvents]_vars

(* the calls of the end-to-end scenario: event E1 with two seats, dated one *)
(* hour ahead, seats 0..2 asked for, identities A and B                    *)
OneHour == 12 * FiveMinutes

NextScenario ==
    \/ CreateEvent({<<" ", "a", " ">>}, {now + OneHour}, {<<"b">>}, {2}, {E1})
    \/ MintTicket({E1}, 0..2, Principals)
    \/ TransferTicket({E1_0}, Principals)
    \/ CheckTicketOwner({E1_0})
    \/ GetEvent({E1})
    \/ Tick

SpecScenario == Init /\ [][NextScenario]_vars

(* a one-seat event whose ticket is minted to A; A and B send transfers of *)
(* it to B and to C, which the canister executes in any order              *)
NextConcurrent ==
    \/ CreateEvent({<<" ", "a", " ">>}, {FiveMinutes}, {<<"b">>}, {1}, {E1})
    \/ MintTicket({E1}, {0}, {"A"})
    \/ SubmitTransfer({E1_0}, {"B", "C"}, {"A", "B"})
    \/ ExecuteTransfer

SpecConcurrent == Init /\ [][NextConcurrent]_vars

(* two events of two seats each whose ids are "E" and "E_1": seat 1 of "E" *)
(* has the ticket id "E_1", seat 0 of "E_1" the ticket id "E_1_0"          *)
IdE == <<"E">>
IdE_1 == <<"E", "_", "1">>
UnderscoreEventIds == {IdE, IdE_1}
UnderscoreTicketIds == {ticket_id_of(e, s) : e \in UnderscoreEventIds, s \in 0..1}

NextIds ==
    \/ CreateEvent({<<" ", "a", " ">>}, {FiveMinutes}, {<<"b">>}, {2},
                   UnderscoreEventIds)
    \/ MintTicket(UnderscoreEventIds, 0..2, Principals)
    \/ TransferTicket(UnderscoreTicketIds, Principals)
    \/ CheckTicketOwner(UnderscoreTicketIds)

SpecIds == Init /\ [][NextIds]_vars

(* ====================================================================== *)
(* Properties                                                             *)
(* ====================================================================== *)
call == last.call
ret == last.ret

(* the error kinds of the specification, by the message the code returns *)
Kind(m) ==
    CASE m = "Event with this ID already exists" -> "AlreadyExists"
      [] m \in {"Invalid name", "Invalid location", "Invalid num_seats",
                "Date needs to be at least five minutes more than the current timestamp",
                "Seat number exceeds the maximum seats available"} -> "InvalidInput"
      [] m \in {"Event not found", "Ticket not found",
                "Ticket with id not found", "Event with id not found"} -> "NotFound"
      [] m = "This seat is already taken" -> "SeatAlreadyTaken"
      [] m = "Only the ticket owner can transfer it" -> "NotAuthorized"

Failed(kind) == ~ret.ok /\ Kind(ret.err) = kind

(* some ticket of the map tickets is for seat seat_number of event event_id *)
SeatHeld(tickets, event_id, seat_number) ==
    \E t \in DOMAIN tickets :
        /\ tickets[t].event_id = event_id
        /\ tickets[t].seat_number = to_string(seat_number)

(* s holds a character that is not whitespace *)
NonBlank(s) == \E i \in 1..Len(s) : s[i] \notin WhiteSpace

(* what a lookup of ticket_id / event_id answers on given maps *)
OwnerIn(tickets, ticket_id) ==
    IF ticket_id \in DOMAIN tickets THEN Ok(tickets[ticket_id].owner)
    ELSE Err("Ticket with id not found")

EventIn(events, event_id) ==
    IF event_id \in DOMAIN events THEN Ok(events[event_id])
    ELSE Err("Event with id not found")

IsUpdate == call.op \in {"create_event", "mint_ticket", "transfer_ticket"}
IsQuery == call.op \in {"get_event", "check_ticket_owner"}

(* ---------------------------------------------------------------------- *)
(* C1 (mint-once). No two tickets are for the same (event_id, seat_number); *)
(* a ticket once stored stays, with its event and seat; a mint_ticket call *)
(* for a seat that already has a ticket returns SeatAlreadyTaken, a call   *)
(* that succeeds found the seat without a ticket and leaves it with one,   *)
(* and every call for a seat of an existing event within its capacity that *)
(* does not succeed returns SeatAlreadyTaken. So, in whatever order the    *)
(* calls for one seat are executed, at most one of them succeeds.          *)
(* ---------------------------------------------------------------------- *)
MintOnce ==
    /\ \A t1 \in DOMAIN TICKETS, t2 \in DOMAIN TICKETS :
           (/\ TICKETS[t1].event_id = TICKETS[t2].event_id
            /\ TICKETS[t1].seat_number = TICKETS[t2].seat_number) => t1 = t2
    /\ \A t \in DOMAIN pre.tickets :
           /\ t \in DOMAIN TICKETS
           /\ TICKETS[t].event_id = pre.tickets[t].event_id
           /\ TICKETS[t].seat_number = pre.tickets[t].seat_number
    /\ call.op = "mint_ticket" =>
           LET held == SeatHeld(pre.tickets, call.event_id, call.seat_number)
               mintable == /\ call.event_id \in DOMAIN pre.events
                           /\ call.seat_number < pre.events[call.event_id].max_seats
           IN /\ held => Failed("SeatAlreadyTaken")
              /\ ret.ok => ~held /\ SeatHeld(TICKETS, call.event_id, call.seat_number)
              /\ (mintable /\ ~ret.ok) => Failed("SeatAlreadyTaken")

(* a second mint of a seat, for another owner, is refused *)
MintOnceWitness ==
    /\ call.op = "mint_ticket"
    /\ Failed("SeatAlreadyTaken")
    /\ \E t \in DOMAIN TICKETS :
           /\ TICKETS[t].event_id = call.event_id
           /\ TICKETS[t].seat_number = to_string(call.seat_number)
           /\ TICKETS[t].owner # call.owner

(* ---------------------------------------------------------------------- *)
(* C2 (authorization). A transfer_ticket call on an existing ticket        *)
(* succeeds exactly when the caller is the ticket's owner at the time of   *)
(* the call; by any other caller it returns NotAuthorized and the owner    *)
(* stays as it was.                                                        *)
(* ---------------------------------------------------------------------- *)
TransferAuthorized ==
    (call.op = "transfer_ticket" /\ call.ticket_id \in DOMAIN pre.tickets) =>
        LET owner == pre.tickets[call.ticket_id].owner IN
        /\ ret.ok <=> call.caller = owner
        /\ call.caller # owner =>
               /\ Failed("NotAuthorized")
               /\ TICKETS[call.ticket_id].owner = owner

(* a caller who is not the owner tries to take the ticket *)
TransferAuthorizedWitness ==
    /\ call.op = "transfer_ticket"
    /\ call.ticket_id \in DOMAIN pre.tickets
    /\ call.caller # pre.tickets[call.ticket_id].owner
    /\ call.new_owner = call.caller
    /\ Failed("NotAuthorized")

(* ---------------------------------------------------------------------- *)
(* C3 (unique event ids). A create_event call succeeds only for an id that *)
(* is not in the registry, and then adds that id alone; for an id that is  *)
(* in the registry it returns AlreadyExists whatever the other arguments   *)
(* are and the registry stays as it was.                                   *)
(* ---------------------------------------------------------------------- *)
CreateUnique ==
    call.op = "create_event" =>
        /\ ret.ok =>
               /\ call.id \notin DOMAIN pre.events
               /\ DOMAIN EVENTS = (DOMAIN pre.events) \cup {call.id}
               /\ \A e \in DOMAIN pre.events : EVENTS[e] = pre.events[e]
        /\ call.id \in DOMAIN pre.events =>
               /\ Failed("AlreadyExists")
               /\ EVENTS = pre.events

(* with two events created, a further create of one of the ids, with        *)
(* invalid and with other arguments                                        *)
CreateUniqueWitness ==
    /\ call.op = "create_event"
    /\ Failed("AlreadyExists")
    /\ ~NonBlank(call.name)
    /\ call.num_seats # EVENTS[call.id].max_seats
    /\ Cardinality(DOMAIN EVENTS) = 2

(* ---------------------------------------------------------------------- *)
(* C4 (seat bound). Every stored ticket is for an existing event and a     *)
(* seat number below that event's capacity. A mint_ticket call for an      *)
(* existing event succeeds only for 0 <= seat_number < capacity, a seat    *)
(* number equal to the capacity or larger is refused as out of range, and  *)
(* seat capacity - 1 is accepted when it has no ticket.                    *)
(* ---------------------------------------------------------------------- *)
SeatBound ==
    /\ \A t \in DOMAIN TICKETS :
           /\ TICKETS[t].event_id \in DOMAIN EVENTS
           /\ \E s \in 0..(EVENTS[TICKETS[t].event_id].max_seats - 1) :
                  TICKETS[t].seat_number = to_string(s)
    /\ (call.op = "mint_ticket" /\ call.event_id \in DOMAIN pre.events) =>
           LET capacity == pre.events[call.event_id].max_seats IN
           /\ ret.ok => (0 <= call.seat_number /\ call.seat_number < capacity)
           /\ call.seat_number >= capacity =>
                  /\ Failed("InvalidInput")
                  /\ ret.err = "Seat number exceeds the maximum seats available"
           /\ (/\ call.seat_number = capacity - 1
               /\ ~SeatHeld(pre.tickets, call.event_id, call.seat_number)) => ret.ok

(* the seat equal to the capacity is refused while the last seat is taken *)
SeatBoundWitness ==
    /\ call.op = "mint_ticket"
    /\ call.event_id \in DOMAIN EVENTS
    /\ call.seat_number = EVENTS[call.event_id].max_seats
    /\ Failed("InvalidInput")
    /\ SeatHeld(TICKETS, call.event_id, call.seat_number - 1)

(* ---------------------------------------------------------------------- *)
(* C5 (current holder). After a successful transfer_ticket of t by A to B, *)
(* check_ticket_owner(t) returns B, a transfer of t by B succeeds and, if  *)
(* A # B, one by A returns NotAuthorized. After a successful mint,         *)
(* check_ticket_owner returns the mint owner. Any other call leaves what   *)
(* check_ticket_owner returns for every ticket as it was. So the owner     *)
(* returned is the mint owner until a transfer succeeds, and then the      *)
(* new_owner of the latest successful transfer.                            *)
(* ---------------------------------------------------------------------- *)
OwnerFollowsTransfers ==
    /\ (call.op = "transfer_ticket" /\ ret.ok) =>
           /\ check_ticket_owner(call.ticket_id).ret = Ok(call.new_owner)
           /\ \A p \in Principals :
                  /\ transfer_ticket(call.ticket_id, p, call.new_owner).ret.ok
                  /\ call.caller # call.new_owner =>
                         LET again == transfer_ticket(call.ticket_id, p, call.caller).ret
                         IN ~again.ok /\ Kind(again.err) = "NotAuthorized"
    /\ (call.op = "mint_ticket" /\ ret.ok) =>
           check_ticket_owner(ret.val.id).ret = Ok(call.owner)
    /\ \A t \in DOMAIN pre.tickets :
           ~(call.op = "transfer_ticket" /\ ret.ok /\ call.ticket_id = t) =>
               check_ticket_owner(t).ret = Ok(pre.tickets[t].owner)

(* a ticket handed to another identity *)
OwnerFollowsTransfersWitness ==
    /\ call.op = "transfer_ticket"
    /\ ret.ok
    /\ call.caller # call.new_owner
    /\ pre.tickets[call.ticket_id].owner = call.caller
    /\ TICKETS[call.ticket_id].owner = call.new_owner

(* ---------------------------------------------------------------------- *)
(* C6 (all-or-nothing). A create_event, mint_ticket or transfer_ticket     *)
(* call that returns an error returns one of the five error kinds and      *)
(* leaves the events, tickets and metadata maps as they were.              *)
(* ---------------------------------------------------------------------- *)
FailureLeavesStore ==
    (IsUpdate /\ ~ret.ok) =>
        /\ Kind(ret.err) \in {"AlreadyExists", "InvalidInput", "NotFound",
                              "SeatAlreadyTaken", "NotAuthorized"}
        /\ EVENTS = pre.events
        /\ TICKETS = pre.tickets
        /\ NFT_METADATA = pre.metadata

(* a create_event refused for its date *)
FailureLeavesStoreWitness ==
    /\ call.op = "create_event"
    /\ Failed("InvalidInput")
    /\ NonBlank(call.name)
    /\ NonBlank(call.location)
    /\ call.num_seats > 0

(* ---------------------------------------------------------------------- *)
(* C7 (create_event). A create_event call succeeds exactly when the id is  *)
(* not in the registry, name and location hold a character that is not     *)
(* whitespace, num_seats > 0 and date >= time() + five minutes; a fresh,   *)
(* otherwise valid call with date one unit earlier returns InvalidInput.   *)
(* On success the stored and the returned event have the supplied fields   *)
(* and no nft_id, and get_event(id) returns that event.                    *)
(* ---------------------------------------------------------------------- *)
CreateValidates ==
    call.op = "create_event" =>
        LET fresh == call.id \notin DOMAIN pre.events
            fields == /\ NonBlank(call.name)
                      /\ NonBlank(call.location)
                      /\ call.num_seats > 0
            event == [id |-> call.id, name |-> call.name, date |-> call.date,
                      location |-> call.location, max_seats |-> call.num_seats,
                      nft_id |-> None]
        IN /\ ret.ok <=> (fresh /\ fields /\ call.date >= call.time + FiveMinutes)
           /\ (fresh /\ fields /\ call.date = call.time + FiveMinutes - 1) =>
                  Failed("InvalidInput")
           /\ (fresh /\ ~fields) => Failed("InvalidInput")
           /\ ret.ok =>
                  /\ ret.val = event
                  /\ call.id \in DOMAIN EVENTS
                  /\ EVENTS[call.id] = event
                  /\ get_event(call.id).ret = Ok(event)

(* an event created with a date exactly five minutes ahead, at a later time *)
CreateValidatesWitness ==
    /\ call.op = "create_event"
    /\ ret.ok
    /\ call.time > 0
    /\ call.date = call.time + FiveMinutes
    /\ call.name # trim(call.name)

(* ---------------------------------------------------------------------- *)
(* C8 (mint result). A successful mint_ticket(event_id, seat_number, owner) *)
(* returns and stores the ticket whose id is event_id, "_", the decimal    *)
(* seat number, with that event_id, seat number and owner, and stores      *)
(* under that id a metadata record with token_id the ticket id and owner   *)
(* the supplied owner; check_ticket_owner of the id then returns the owner. *)
(* ---------------------------------------------------------------------- *)
MintStores ==
    (call.op = "mint_ticket" /\ ret.ok) =>
        LET id == call.event_id \o <<"_">> \o to_string(call.seat_number) IN
        /\ (call.event_id = E1 /\ call.seat_number = 0) => id = E1_0
        /\ ret.val = [id |-> id, seat_number |-> to_string(call.seat_number),
                      event_id |-> call.event_id, owner |-> call.owner]
        /\ id \in DOMAIN TICKETS
        /\ TICKETS[id] = ret.val
        /\ id \in DOMAIN NFT_METADATA
        /\ NFT_METADATA[id].token_id = id
        /\ NFT_METADATA[id].owner = call.owner
        /\ check_ticket_owner(id).ret = Ok(call.owner)

(* the second seat of an event minted after the first *)
MintStoresWitness ==
    /\ call.op = "mint_ticket"
    /\ ret.ok
    /\ call.seat_number = 1
    /\ Cardinality(DOMAIN TICKETS) = 2
    /\ Cardinality(DOMAIN NFT_METADATA) = 2

(* ---------------------------------------------------------------------- *)
(* C9 (events are permanent). Every event that was in the registry before  *)
(* a call is in it after the call, with the same fields, and get_event     *)
(* returns it: no create_event, mint_ticket or transfer_ticket call        *)
(* changes or removes an event.                                            *)
(* ---------------------------------------------------------------------- *)
EventsImmutable ==
    \A id \in DOMAIN pre.events :
        /\ id \in DOMAIN EVENTS
        /\ EVENTS[id] = pre.events[id]
        /\ get_event(id).ret = Ok(pre.events[id])

(* an existing event survives a valid create_event with another date *)
EventsImmutableWitness ==
    /\ call.op = "create_event"
    /\ call.id \in DOMAIN pre.events
    /\ NonBlank(call.name) /\ NonBlank(call.location) /\ call.num_seats > 0
    /\ call.date >= call.time + FiveMinutes
    /\ call.date # pre.events[call.id].date
    /\ DOMAIN TICKETS # {}

(* ---------------------------------------------------------------------- *)
(* C10 (reads). A get_event or check_ticket_owner call leaves the three    *)
(* maps as they were and the same call made again returns the same result; *)
(* after any call that is not a successful create_event, mint_ticket or    *)
(* transfer_ticket, every get_event and check_ticket_owner returns what it *)
(* returned before that call, NotFound results included.                   *)
(* ---------------------------------------------------------------------- *)
ReadsRepeat ==
    /\ IsQuery => Store = pre
    /\ call.op = "get_event" => get_event(call.event_id).ret = ret
    /\ call.op = "check_ticket_owner" => check_ticket_owner(call.ticket_id).ret = ret
    /\ ~(IsUpdate /\ ret.ok) =>
           /\ \A e \in EventIds : get_event(e).ret = EventIn(pre.events, e)
           /\ \A t \in TicketIds : check_ticket_owner(t).ret = OwnerIn(pre.tickets, t)

(* the owner of a ticket read after the ticket was transferred *)
ReadsRepeatWitness ==
    /\ call.op = "check_ticket_owner"
    /\ ret.ok
    /\ call.ticket_id \in DOMAIN NFT_METADATA
    /\ ret.val # NFT_METADATA[call.ticket_id].owner

(* ---------------------------------------------------------------------- *)
(* C11 (scenario). From the empty store: create_event of E1 with 2 seats   *)
(* dated one hour ahead succeeds; then mint of seat 0 to A succeeds with   *)
(* ticket id "E1_0"; then mint of seat 0 to B returns SeatAlreadyTaken and *)
(* mint of seat 2 returns InvalidInput; then transfer_ticket of "E1_0" by  *)
(* caller B returns NotAuthorized, all three leaving the ticket with A;    *)
(* then transfer_ticket by caller A to B succeeds; then                    *)
(* check_ticket_owner("E1_0") returns B. Each step is stated for the maps  *)
(* the steps before it leave.                                              *)
(* ---------------------------------------------------------------------- *)
ScenarioEvents(events) ==
    /\ DOMAIN events = {E1}
    /\ events[E1].id = E1
    /\ events[E1].max_seats = 2

ScenarioTickets(owner) ==
    E1_0 :> [id |-> E1_0, seat_number |-> <<"0">>, event_id |-> E1, owner |-> owner]

ScenarioHolds ==
    /\ (/\ call.op = "create_event" /\ call.id = E1 /\ call.num_seats = 2
        /\ NonBlank(call.name) /\ NonBlank(call.location)
        /\ call.date = call.time + OneHour
        /\ pre.events = EmptyMap /\ pre.tickets = EmptyMap) =>
           /\ ret.ok
           /\ ScenarioEvents(EVENTS)
           /\ EVENTS[E1].date = call.date
           /\ TICKETS = EmptyMap
    /\ (/\ call.op = "mint_ticket" /\ call.event_id = E1
        /\ ScenarioEvents(pre.events)) =>
           /\ (/\ call.seat_number = 0 /\ call.owner = "A"
               /\ pre.tickets = EmptyMap) =>
                  /\ ret.ok
                  /\ ret.val.id = E1_0
                  /\ TICKETS = ScenarioTickets("A")
           /\ (/\ call.seat_number = 0 /\ call.owner = "B"
               /\ pre.tickets = ScenarioTickets("A")) =>
                  /\ Failed("SeatAlreadyTaken")
                  /\ TICKETS = ScenarioTickets("A")
           /\ (call.seat_number = 2 /\ pre.tickets = ScenarioTickets("A")) =>
                  /\ Failed("InvalidInput")
                  /\ TICKETS = ScenarioTickets("A")
    /\ (/\ call.op = "transfer_ticket" /\ call.ticket_id = E1_0
        /\ pre.tickets = ScenarioTickets("A")) =>
           /\ call.caller = "B" =>
                  /\ Failed("NotAuthorized")
                  /\ TICKETS = ScenarioTickets("A")
           /\ (call.caller = "A" /\ call.new_owner = "B") =>
                  /\ ret.ok
                  /\ TICKETS = ScenarioTickets("B")
    /\ (/\ call.op = "check_ticket_owner" /\ call.ticket_id = E1_0
        /\ pre.tickets = ScenarioTickets("B")) =>
           ret = Ok("B")

(* the end of the scenario: seat 0 minted to A, now held by B and read *)
ScenarioHoldsWitness ==
    /\ call.op = "check_ticket_owner"
    /\ call.ticket_id = E1_0
    /\ ret = Ok("B")
    /\ ScenarioEvents(EVENTS)
    /\ EVENTS[E1].date = now + OneHour
    /\ TICKETS = ScenarioTickets("B")
    /\ DOMAIN NFT_METADATA = {E1_0}
    /\ NFT_METADATA[E1_0].owner = "A"

(* ---------------------------------------------------------------------- *)
(* C12 (ticket frame). Every ticket that was in the map before a call is   *)
(* in it after the call with the same id, event_id and seat_number, and    *)
(* with the same owner unless the call is a successful transfer_ticket of  *)
(* that ticket. A successful transfer_ticket sets that ticket's owner to   *)
(* new_owner and leaves the events map, the set of tickets, every other    *)
(* ticket and the metadata map as they were.                               *)
(* ---------------------------------------------------------------------- *)
TicketFrame ==
    /\ \A t \in DOMAIN pre.tickets :
           /\ t \in DOMAIN TICKETS
           /\ TICKETS[t].id = pre.tickets[t].id
           /\ TICKETS[t].event_id = pre.tickets[t].event_id
           /\ TICKETS[t].seat_number = pre.tickets[t].seat_number
           /\ TICKETS[t].owner # pre.tickets[t].owner =>
                  /\ call.op = "transfer_ticket"
                  /\ ret.ok
                  /\ call.ticket_id = t
    /\ (call.op = "transfer_ticket" /\ ret.ok) =>
           /\ EVENTS = pre.events
           /\ NFT_METADATA = pre.metadata
           /\ DOMAIN TICKETS = DOMAIN pre.tickets
           /\ TICKETS[call.ticket_id].owner = call.new_owner
           /\ \A t \in DOMAIN TICKETS :
                  t # call.ticket_id => TICKETS[t] = pre.tickets[t]

(* one of two tickets handed to another identity *)
TicketFrameWitness ==
    /\ call.op = "transfer_ticket"
    /\ ret.ok
    /\ Cardinality(DOMAIN TICKETS) = 2
    /\ TICKETS[call.ticket_id].owner # pre.tickets[call.ticket_id].owner
    /\ \E t \in DOMAIN TICKETS :
           t # call.ticket_id /\ TICKETS[t].owner = call.caller

(* ---------------------------------------------------------------------- *)
(* C13 (concurrent transfers). When the messages sent are two              *)
(* transfer_ticket requests for one ticket by the same caller, each sent   *)
(* while the ledger showed that caller as the owner, to two distinct new   *)
(* owners other than the caller, then in every order of execution: both    *)
(* never succeed; once one has succeeded the owner is its new_owner and    *)
(* the reply to the other, when it comes, is NotAuthorized; and when both  *)
(* have been executed one of them has succeeded.                           *)
(* ---------------------------------------------------------------------- *)
Replied(r) == calls[r].reply # << >>
Succeeded(r) == Replied(r) /\ calls[r].reply[1].ok
Refused(r) ==
    /\ Replied(r)
    /\ ~calls[r].reply[1].ok
    /\ Kind(calls[r].reply[1].err) = "NotAuthorized"

ConcurrentTransfers ==
    \A r1 \in DOMAIN calls, r2 \in DOMAIN calls :
        (/\ r1 # r2
         /\ DOMAIN calls = {r1, r2}
         /\ r1.ticket_id = r2.ticket_id
         /\ r1.caller = r2.caller
         /\ calls[r1].seen = Ok(r1.caller)
         /\ calls[r2].seen = Ok(r2.caller)
         /\ r1.new_owner # r2.new_owner
         /\ r1.new_owner # r1.caller
         /\ r2.new_owner # r2.caller) =>
            /\ ~(Succeeded(r1) /\ Succeeded(r2))
            /\ Succeeded(r1) =>
                   /\ TICKETS[r1.ticket_id].owner = r1.new_owner
                   /\ Replied(r2) => Refused(r2)
            /\ (Replied(r1) /\ Replied(r2)) => (Succeeded(r1) \/ Succeeded(r2))
            /\ (~Replied(r1) /\ ~Replied(r2)) =>
                   TICKETS[r1.ticket_id].owner = r1.caller

(* A's transfers to B and to C both executed: the one to C won *)
ConcurrentTransfersWitness ==
    LET toB == [ticket_id |-> E1_0, new_owner |-> "B", caller |-> "A"]
        toC == [ticket_id |-> E1_0, new_owner |-> "C", caller |-> "A"]
    IN /\ DOMAIN calls = {toB, toC}
       /\ calls[toB].seen = Ok("A")
       /\ calls[toC].seen = Ok("A")
       /\ Succeeded(toC)
       /\ Refused(toB)
       /\ TICKETS[E1_0].owner = "C"

(* ---------------------------------------------------------------------- *)
(* C14 (metadata and tickets go together). In every state between two      *)
(* calls, and so in every state a call starts from, the metadata map and   *)
(* the tickets map have the same keys and every metadata record has its    *)
(* key as token_id.                                                        *)
(* ---------------------------------------------------------------------- *)
MetadataMatchesTickets ==
    /\ DOMAIN NFT_METADATA = DOMAIN TICKETS
    /\ \A t \in DOMAIN NFT_METADATA : NFT_METADATA[t].token_id = t
    /\ DOMAIN pre.metadata = DOMAIN pre.tickets
    /\ \A t \in DOMAIN pre.metadata : pre.metadata[t].token_id = t

(* a mint has just added the second ticket and the second metadata record *)
MetadataMatchesTicketsWitness ==
    /\ call.op = "mint_ticket"
    /\ ret.ok
    /\ ret.val.id \notin DOMAIN pre.metadata
    /\ ret.val.id \in DOMAIN NFT_METADATA
    /\ Cardinality(DOMAIN NFT_METADATA) = 2
    /\ Cardinality(DOMAIN TICKETS) = 2

(* ---------------------------------------------------------------------- *)
(* C15 (metadata owner is a mint-time snapshot). A metadata record, once   *)
(* written, is never changed; a successful mint writes the owner it was    *)
(* given; so after a successful transfer to someone other than the owner   *)
(* given at mint the metadata owner differs from the ticket owner. A       *)
(* transfer of an existing ticket succeeds exactly when the caller is the  *)
(* owner in the tickets map, and check_ticket_owner answers the owner in   *)
(* the tickets map, whatever the metadata owner is.                        *)
(* ---------------------------------------------------------------------- *)
MetadataSnapshot ==
    /\ \A t \in DOMAIN pre.metadata :
           t \in DOMAIN NFT_METADATA /\ NFT_METADATA[t] = pre.metadata[t]
    /\ (call.op = "mint_ticket" /\ ret.ok) =>
           /\ ret.val.id \notin DOMAIN pre.metadata
           /\ NFT_METADATA[ret.val.id].owner = call.owner
    /\ (call.op = "transfer_ticket" /\ ret.ok
           /\ call.new_owner # NFT_METADATA[call.ticket_id].owner) =>
           NFT_METADATA[call.ticket_id].owner # TICKETS[call.ticket_id].owner
    /\ (call.op = "transfer_ticket" /\ call.ticket_id \in DOMAIN pre.tickets) =>
           (ret.ok <=> call.caller = pre.tickets[call.ticket_id].owner)
    /\ call.op = "check_ticket_owner" => ret = OwnerIn(TICKETS, call.ticket_id)

(* the ticket is held by someone other than the owner given at mint, and   *)
(* check_ticket_owner has just answered the holder                         *)
MetadataSnapshotWitness ==
    /\ call.op = "check_ticket_owner"
    /\ call.ticket_id \in DOMAIN TICKETS
    /\ NFT_METADATA[call.ticket_id].owner # TICKETS[call.ticket_id].owner
    /\ ret = Ok(TICKETS[call.ticket_id].owner)

(* ---------------------------------------------------------------------- *)
(* C16 (ticket ids are injective). Two distinct pairs of event id and seat *)
(* number never have the same ticket id, also when an event id holds "_"   *)
(* or digits: the ticket id of a seat of the events "E" and "E_1" is the   *)
(* ticket id of no other pair of an id in IdStrings and a seat number up   *)
(* to MaxSeatNumber. So every ticket is stored under the id of its own event and  *)
(* seat; a mint of a free seat below the capacity of an existing event     *)
(* succeeds whatever was minted for other events; and transfer_ticket and  *)
(* check_ticket_owner on the id of a seat find a ticket exactly when that  *)
(* seat of that event was minted, and transfer no other ticket.            *)
(* ---------------------------------------------------------------------- *)
IdStrings == {IdE, IdE_1, E1, <<"E", "_">>, <<"1">>, << >>}

TicketIdsInjective ==
    \A e \in UnderscoreEventIds, n \in 0..2 :
           LET t == ticket_id_of(e, n) IN
           /\ \A e2 \in IdStrings, n2 \in 0..MaxSeatNumber :
                  t = ticket_id_of(e2, n2) => (e = e2 /\ n = n2)
           /\ t \in DOMAIN TICKETS =>
                  /\ TICKETS[t].id = t
                  /\ TICKETS[t].event_id = e
                  /\ TICKETS[t].seat_number = to_string(n)
           /\ (call.op = "mint_ticket" /\ call.event_id = e /\ call.seat_number = n
                  /\ e \in DOMAIN pre.events /\ n < pre.events[e].max_seats
                  /\ ~SeatHeld(pre.tickets, e, n)) =>
                  (ret.ok /\ ret.val.event_id = e /\ ret.val.id = t)
           /\ (call.op = "check_ticket_owner" /\ call.ticket_id = t) =>
                  (ret.ok <=> SeatHeld(TICKETS, e, n))
           /\ (call.op = "transfer_ticket" /\ call.ticket_id = t) =>
                  /\ Failed("NotFound") <=> ~SeatHeld(pre.tickets, e, n)
                  /\ \A u \in DOMAIN pre.tickets :
                         (pre.tickets[u].event_id # e
                            \/ pre.tickets[u].seat_number # to_string(n)) =>
                         TICKETS[u] = pre.tickets[u]

(* seat 0 of "E_1" minted while the ticket "E_1" of seat 1 of "E" exists *)
TicketIdsInjectiveWitness ==
    /\ call.op = "mint_ticket"
    /\ call.event_id = IdE_1
    /\ call.seat_number = 0
    /\ ret.ok
    /\ ticket_id_of(IdE, 1) = IdE_1
    /\ IdE_1 \in DOMAIN pre.tickets
    /\ pre.tickets[IdE_1].event_id = IdE
    /\ DOMAIN TICKETS = DOMAIN pre.tickets \cup {ticket_id_of(IdE_1, 0)}

(* ---------------------------------------------------------------------- *)
(* C17 (capacity). Every ticket is for an existing event, and the tickets  *)
(* of an event are never more than its max_seats. A mint for an event      *)
(* whose seats 0..max_seats-1 are all held fails: with SeatAlreadyTaken    *)
(* for a seat number below max_seats, with the out-of-range error          *)
(* otherwise. A mint for an event id that is not in the events map (events *)
(* are never removed, so one that was never created) returns NotFound and  *)
(* leaves the tickets and the metadata as they were.                       *)
(* ---------------------------------------------------------------------- *)
TicketsOf(tickets, event_id) ==
    {t \in DOMAIN tickets : tickets[t].event_id = event_id}

SoldOut(events, tickets, event_id) ==
    \A n \in 0..(events[event_id].max_seats - 1) : SeatHeld(tickets, event_id, n)

CapacityBound ==
    /\ \A t \in DOMAIN TICKETS : TICKETS[t].event_id \in DOMAIN EVENTS
    /\ \A e \in DOMAIN EVENTS :
           Cardinality(TicketsOf(TICKETS, e)) <= EVENTS[e].max_seats
    /\ (call.op = "mint_ticket" /\ call.event_id \in DOMAIN pre.events
           /\ SoldOut(pre.events, pre.tickets, call.event_id)) =>
           /\ ~ret.ok
           /\ call.seat_number < pre.events[call.event_id].max_seats =>
                  Failed("SeatAlreadyTaken")
           /\ call.seat_number >= pre.events[call.event_id].max_seats =>
                  ret = Err("Seat number exceeds the maximum seats available")
           /\ TICKETS = pre.tickets
    /\ (call.op = "mint_ticket" /\ call.event_id \notin DOMAIN pre.events) =>
           /\ Failed("NotFound")
           /\ TICKETS = pre.tickets
           /\ NFT_METADATA = pre.metadata
           /\ EVENTS = pre.events

(* both seats of a two-seat event are held and one more mint of seat 0 has *)
(* been refused                                                            *)
CapacityBoundWitness ==
    /\ call.op = "mint_ticket"
    /\ call.event_id \in DOMAIN pre.events
    /\ pre.events[call.event_id].max_seats = 2
    /\ SoldOut(pre.events, pre.tickets, call.event_id)
    /\ Cardinality(TicketsOf(TICKETS, call.event_id)) = 2
    /\ call.seat_number = 0
    /\ Failed("SeatAlreadyTaken")

(* ---------------------------------------------------------------------- *)
(* C18 (order of the checks of create_event). A create_event whose id is   *)
(* already in the events map returns AlreadyExists whatever its other      *)
(* arguments are. For a new id the error is that of the first check that   *)
(* fails, in the order name, location, num_seats, date.                    *)
(* ---------------------------------------------------------------------- *)
CreatePrecedence ==
    call.op = "create_event" =>
        LET exists == call.id \in DOMAIN pre.events
            bad_name == ~NonBlank(call.name)
            bad_location == ~NonBlank(call.location)
            bad_seats == call.num_seats = 0
            bad_date == call.date < call.time + FiveMinutes
        IN /\ exists => ret = Err("Event with this ID already exists")
           /\ (~exists /\ bad_name) => ret = Err("Invalid name")
           /\ (~exists /\ ~bad_name /\ bad_location) =>
                  ret = Err("Invalid location")
           /\ (~exists /\ ~bad_name /\ ~bad_location /\ bad_seats) =>
                  ret = Err("Invalid num_seats")
           /\ (~exists /\ ~bad_name /\ ~bad_location /\ ~bad_seats /\ bad_date) =>
                  ret = Err("Date needs to be at least five minutes more than the current timestamp")
           /\ ~ret.ok => Kind(ret.err) \in {"AlreadyExists", "InvalidInput"}

(* a new id with a blank name, a blank location, no seats and a date too   *)
(* early: the name is what is reported                                     *)
CreatePrecedenceWitness ==
    /\ call.op = "create_event"
    /\ call.id \notin DOMAIN pre.events
    /\ ~NonBlank(call.name)
    /\ ~NonBlank(call.location)
    /\ call.num_seats = 0
    /\ call.date < call.time + FiveMinutes
    /\ ret = Err("Invalid name")

====
